---- MODULE Spec2Model ----
(***************************************************************************)
(* Model of app.py (script-slide): the note segmenter, the chunker, the    *)
(* speaker colour assigner and the page numbering of create_script_slides. *)
(*                                                                         *)
(* Text is a sequence of characters, one string per character.  Characters *)
(* outside ASCII are written by code point: "U300A" is the opening marker  *)
(* bracket, "U300B" the closing one, "U4EF2" "U689D" the name in the fixed *)
(* table at app.py:56, and so on.  Python's None speaker is the empty      *)
(* sequence: the marker pattern never captures an empty name, so the two   *)
(* cannot be confused, and the code only ever tests the name for truth.    *)
(***************************************************************************)
EXTENDS Integers, Sequences, FiniteSets, TLC

VARIABLES
    pc,              \* position of the conversion request: "input", "ready", "done"
    note,            \* the cleaned note text handed to create_script_slides
    max_len,         \* the budget passed to pack_segments_into_chunks
    segments,        \* result of parse_notes_into_segments
    chunks,          \* result of pack_segments_into_chunks
    slides,          \* slides added to prs for the note
    name_color_map,  \* module global, app.py:67
    auto_color_idx,  \* module global _auto_color_idx, app.py:68
    run,             \* sequential harness: "idle", "start" or "running"
    first_seen,      \* history: distinct non-fixed names in order of first call
    last_call,       \* history: <<name, colour>> of the latest call, or <<>>
    th,              \* per-thread frame of a concurrent conversion
    sp               \* frame of a step-wise pack_segments_into_chunks call

vars == <<pc, note, max_len, segments, chunks, slides, name_color_map,
          auto_color_idx, run, first_seen, last_call, th, sp>>

(***************************************************************************)
(* Bounds of the model.                                                    *)
(***************************************************************************)
MaxNoteLen == 5      \* tokens typed into a note
MaxBudget == 3       \* budgets tried are 1..MaxBudget
MaxUnknown == 4      \* distinct speakers outside the fixed table
MaxTextLen == 4      \* length of the segment text of the step-wise call

(***************************************************************************)
(* Characters.                                                             *)
(***************************************************************************)
LB == "U300A"
RB == "U300B"
NL == "\n"
Whitespace == {" ", NL}
Boundary == {"U3001", "U3002", "UFF0E", "UFF0C", ",", ".", "?", "!"} \cup Whitespace

Min2(a, b) == IF a < b THEN a ELSE b
Max2(a, b) == IF a > b THEN a ELSE b

RECURSIVE LStrip(_)
LStrip(s) == IF s # <<>> /\ Head(s) \in Whitespace THEN LStrip(Tail(s)) ELSE s

RECURSIVE RStrip(_)
RStrip(s) ==
    IF s # <<>> /\ s[Len(s)] \in Whitespace
    THEN RStrip(SubSeq(s, 1, Len(s) - 1))
    ELSE s

\* str.strip()
Strip(s) == RStrip(LStrip(s))

\* "".join(buffer)
RECURSIVE Join(_)
Join(buffer) == IF buffer = <<>> THEN <<>> ELSE Head(buffer) \o Join(Tail(buffer))

\* str.splitlines() for the line terminator "\n"
RECURSIVE SplitLines(_)
SplitLines(t) ==
    IF t = <<>> THEN <<>>
    ELSE IF \E k \in 1..Len(t) : t[k] = NL
         THEN LET k == CHOOSE k \in 1..Len(t) :
                           t[k] = NL /\ \A j \in 1..(k - 1) : t[j] # NL
              IN  <<SubSeq(t, 1, k - 1)>> \o SplitLines(SubSeq(t, k + 1, Len(t)))
         ELSE <<t>>

\* Python's s[i:j], 0-based, negative indices counted from the end
PyIndex(n, i) == IF i < 0 THEN Max2(n + i, 0) ELSE Min2(i, n)
PySlice(s, i, j) == SubSeq(s, PyIndex(Len(s), i) + 1, PyIndex(Len(s), j))

(***************************************************************************)
(* parse_notes_into_segments                                               *)
(***************************************************************************)
\* re.match of the marker pattern at the start of line: the position of the
\* closing bracket the lazy group stops at, 0 when there is no match
MarkerEnd(line) ==
    IF /\ Len(line) >= 3
       /\ line[1] = LB
       /\ \E j \in 3..Len(line) : line[j] = RB
    THEN CHOOSE j \in 3..Len(line) :
             line[j] = RB /\ \A k \in 3..(j - 1) : line[k] # RB
    ELSE 0

FlushBuffer(st) ==
    IF st.buffer # <<>>
    THEN LET joined == Strip(Join(st.buffer))
         IN  IF joined # <<>>
             THEN Append(st.segments, <<st.current_name, joined>>)
             ELSE st.segments
    ELSE st.segments

ParseLine(st, raw) ==
    LET line == Strip(raw) IN
    IF line = <<>> THEN st
    ELSE LET e == MarkerEnd(line) IN
         IF e > 0
         THEN LET rest == SubSeq(line, e + 1, Len(line))
              IN  [segments |-> FlushBuffer(st),
                   current_name |-> SubSeq(line, 2, e - 1),
                   buffer |-> IF rest # <<>> THEN <<rest>> ELSE <<>>]
         ELSE [st EXCEPT !.buffer = Append(@, line)]

RECURSIVE ParseLines(_, _)
ParseLines(st, lines) ==
    IF lines = <<>> THEN st ELSE ParseLines(ParseLine(st, Head(lines)), Tail(lines))

\* as MergeAdjacent, without the merge of equal neighbours
MergeAdjacentNever(merged, segs) == merged \o segs

RECURSIVE MergeAdjacent(_, _)
MergeAdjacent(merged, segs) ==
    IF segs = <<>> THEN merged
    ELSE LET name == Head(segs)[1]
             text == Head(segs)[2]
             n == Len(merged)
         IN  IF n > 0 /\ merged[n][1] = name
             THEN MergeAdjacent([merged EXCEPT ![n] = <<name, merged[n][2] \o text>>],
                                Tail(segs))
             ELSE MergeAdjacent(Append(merged, <<name, text>>), Tail(segs))

parse_notes_into_segments(note_text) ==
    LET st0 == [segments |-> <<>>, current_name |-> <<>>, buffer |-> <<>>]
        st == ParseLines(st0, SplitLines(note_text))
    IN  MergeAdjacent(<<>>, FlushBuffer(st))

(***************************************************************************)
(* _split_preserving_words                                                 *)
(***************************************************************************)
\* re.search of the boundary pattern in window: m.end() of the leftmost
\* match, -1 when nothing matches.  A match starts at i when a run of
\* boundary characters from i is followed, up to the end of the window, by
\* characters that are not boundaries; the run is taken greedily.
BoundaryRun(window, i, e) ==
    /\ \A k \in i..e : window[k] \in Boundary
    /\ \A k \in (e + 1)..Len(window) : window[k] \notin Boundary

SearchEnd(window) ==
    LET starts == {i \in 1..Len(window) :
                      \E e \in i..Len(window) : BoundaryRun(window, i, e)}
    IN  IF starts = {} THEN -1
        ELSE LET i == CHOOSE x \in starts : \A y \in starts : x <= y
                 ends == {e \in i..Len(window) : BoundaryRun(window, i, e)}
             IN  CHOOSE e \in ends : \A f \in ends : f <= e

\* as SplitCut, cutting at m.start() instead of m.end()
SplitCutAtRunStart(s, limit, start) ==
    LET end == Min2(Len(s), start + limit)
        window == PySlice(s, start, end)
        m == SearchEnd(window)
        runs == {i \in 1..Len(window) : \A k \in i..m : window[k] \in Boundary}
    IN  IF m >= 0
        THEN start + (CHOOSE i \in runs : \A j \in runs : i <= j) - 1
        ELSE end

\* one iteration of the while loop: the value of cut (app.py:151-157)
SplitCut(s, limit, start) ==
    LET end == Min2(Len(s), start + limit)
        window == PySlice(s, start, end)
        m == SearchEnd(window)
    IN  IF m >= 0 THEN start + m ELSE end

RECURSIVE SplitLoop(_, _, _, _)
SplitLoop(s, limit, start, parts) ==
    IF start < Len(s)
    THEN LET cut == SplitCut(s, limit, start)
         IN  SplitLoop(s, limit, cut, Append(parts, PySlice(s, start, cut)))
    ELSE parts

\* as split_preserving_words, without the early return for a short text
SplitAlways(s, limit) == SplitLoop(s, limit, 0, <<>>)

split_preserving_words(s, limit) ==
    IF Len(s) <= limit THEN <<s>> ELSE SplitLoop(s, limit, 0, <<>>)

(***************************************************************************)
(* pack_segments_into_chunks                                               *)
(***************************************************************************)
\* the nested flush()
Flush(pk) ==
    IF pk.cur # <<>>
    THEN [chunks |-> Append(pk.chunks, pk.cur), cur |-> <<>>, cur_len |-> 0]
    ELSE pk

\* as NeedsFlush, never closing the chunk before a piece is added
NeedsFlushNever(pk, need, limit) == FALSE

\* the test that closes the current chunk before a piece is added
NeedsFlush(pk, need, limit) == need > limit - pk.cur_len /\ pk.cur # <<>>

\* as PackPiece, losing the piece that does not fit the current chunk
PackPieceLost(pk, name, raw, limit) ==
    LET piece == Strip(raw) IN
    IF piece = <<>> THEN pk
    ELSE IF NeedsFlush(pk, Len(piece), limit) THEN Flush(pk)
    ELSE LET p2 == [pk EXCEPT !.cur = Append(@, <<name, piece>>),
                              !.cur_len = @ + Len(piece)]
         IN  IF p2.cur_len >= limit THEN Flush(p2) ELSE p2

\* body of the loop over pieces (app.py:182-192)
PackPiece(pk, name, raw, limit) ==
    LET piece == Strip(raw) IN
    IF piece = <<>> THEN pk
    ELSE LET need == Len(piece)
             p1 == IF NeedsFlush(pk, need, limit) THEN Flush(pk) ELSE pk
             p2 == [p1 EXCEPT !.cur = Append(@, <<name, piece>>),
                              !.cur_len = @ + Len(piece)]
         IN  IF p2.cur_len >= limit THEN Flush(p2) ELSE p2

RECURSIVE PackPieces(_, _, _, _)
PackPieces(pk, name, pieces, limit) ==
    IF pieces = <<>> THEN pk
    ELSE PackPieces(PackPiece(pk, name, Head(pieces), limit), name,
                    Tail(pieces), limit)

RECURSIVE PackSegments(_, _, _)
PackSegments(pk, segs, limit) ==
    IF segs = <<>> THEN pk
    ELSE PackSegments(PackPieces(pk, Head(segs)[1],
                                 split_preserving_words(Head(segs)[2], limit),
                                 limit),
                      Tail(segs), limit)

pack_segments_into_chunks(segs, limit) ==
    Flush(PackSegments([chunks |-> <<>>, cur |-> <<>>, cur_len |-> 0],
                       segs, limit)).chunks

(***************************************************************************)
(* get_color_for_name                                                      *)
(***************************************************************************)
White == "FFFFFF"
Nakajo == <<"U4EF2", "U689D">>
Mimura == <<"U4E09", "U6751">>
Hoshino == <<"U661F", "U91CE">>
FixedNames == {Nakajo, Mimura, Hoshino}
NAME_FIXED_COLORS ==
    [n \in FixedNames |->
        IF n = Nakajo THEN "00FDFF" ELSE IF n = Mimura THEN "FFFFFF" ELSE "FFFF00"]
AUTO_COLOR_POOL == <<"FF40FF", "FFA500", "FFFB00">>

\* AUTO_COLOR_POOL[_auto_color_idx % len(AUTO_COLOR_POOL)]
PoolColor(idx) == AUTO_COLOR_POOL[(idx % Len(AUTO_COLOR_POOL)) + 1]

\* name_color_map[name] = color
SetItem(map, name, color) ==
    [x \in DOMAIN map \cup {name} |-> IF x = name THEN color ELSE map[x]]

\* as get_color_for_name, advancing the cursor on calls with a fixed name too
GetColorAdvanceOnFixed(map, idx, name) ==
    IF name = <<>> THEN [color |-> White, map |-> map, idx |-> idx]
    ELSE IF name \in DOMAIN NAME_FIXED_COLORS
         THEN [color |-> NAME_FIXED_COLORS[name], map |-> map, idx |-> idx + 1]
    ELSE IF name \in DOMAIN map
         THEN [color |-> map[name], map |-> map, idx |-> idx]
    ELSE LET color == PoolColor(idx)
         IN  [color |-> color, map |-> SetItem(map, name, color), idx |-> idx + 1]

\* the whole call: the colour returned and the globals after it
get_color_for_name(map, idx, name) ==
    IF name = <<>> THEN [color |-> White, map |-> map, idx |-> idx]
    ELSE IF name \in DOMAIN NAME_FIXED_COLORS
         THEN [color |-> NAME_FIXED_COLORS[name], map |-> map, idx |-> idx]
    ELSE IF name \in DOMAIN map
         THEN [color |-> map[name], map |-> map, idx |-> idx]
    ELSE LET color == PoolColor(idx)
         IN  [color |-> color, map |-> SetItem(map, name, color), idx |-> idx + 1]

EmptyMap == [x \in {} |-> White]

(***************************************************************************)
(* add_page_indicator and the slide loop of create_script_slides           *)
(***************************************************************************)
NoIndicator == <<>>

\* as add_page_indicator, numbering from zero
AddPageIndicatorZeroBased(index, total) ==
    IF total <= 1 THEN NoIndicator ELSE <<index - 1, total>>

\* the indicator text index/total, or nothing
add_page_indicator(index, total) ==
    IF total <= 1 THEN NoIndicator ELSE <<index, total>>

\* the runs of one chunk, threading the colour globals through the calls
RECURSIVE AddRuns(_, _)
AddRuns(acc, chunk) ==
    IF chunk = <<>> THEN acc
    ELSE LET name == Head(chunk)[1]
             part == Head(chunk)[2]
             prefix == IF name # <<>> THEN <<LB>> \o name \o <<RB>> ELSE <<>>
             c == get_color_for_name(acc.map, acc.idx, name)
         IN  AddRuns([runs |-> Append(acc.runs, <<prefix \o part, c.color>>),
                      map |-> c.map, idx |-> c.idx],
                     Tail(chunk))

\* for idx, chunk in enumerate(chunks, start=1)
RECURSIVE AddSlides(_, _, _, _)
AddSlides(acc, cs, idx, total_parts) ==
    IF idx > Len(cs) THEN acc
    ELSE LET r == AddRuns([runs |-> <<>>, map |-> acc.map, idx |-> acc.idx], cs[idx])
             slide == [runs |-> r.runs, page |-> add_page_indicator(idx, total_parts)]
         IN  AddSlides([slides |-> Append(acc.slides, slide),
                        map |-> r.map, idx |-> r.idx],
                       cs, idx + 1, total_parts)

(***************************************************************************)
(* The conversion request: index() cleans the note of the uploaded slide   *)
(* and create_script_slides turns it into slides.                          *)
(***************************************************************************)
VT == "U000B"

RECURSIVE RemoveVT(_)
RemoveVT(text) ==
    IF text = <<>> THEN <<>>
    ELSE IF Head(text) = VT THEN RemoveVT(Tail(text))
         ELSE <<Head(text)>> \o RemoveVT(Tail(text))

clean_text(text) == Strip(RemoveVT(text))

Marker(name) == <<LB>> \o name \o <<RB>>
NameA == <<"A">>
NameB == <<"B">>
Tokens == {Marker(NameA), Marker(NameB), <<"a">>, <<" ">>, <<",">>, <<NL>>}

Scenario3 ==
    Marker(NameA) \o <<"h", "e", "l", "l", "o">> \o
    Marker(NameB) \o <<"w", "o", "r", "l", "d">> \o
    Marker(NameA) \o <<"a", "g", "a", "i", "n">>
Scenario3Lines ==
    Marker(NameA) \o <<"h", "e", "l", "l", "o", NL>> \o
    Marker(NameB) \o <<"w", "o", "r", "l", "d", NL>> \o
    Marker(NameA) \o <<"a", "g", "a", "i", "n">>
ScenarioMerge ==
    Marker(NameA) \o <<"p", "a", "r", "t", "1">> \o
    Marker(NameA) \o <<"p", "a", "r", "t", "2">>
ScenarioMergeLines ==
    Marker(NameA) \o <<"p", "a", "r", "t", "1", NL>> \o
    Marker(NameA) \o <<"p", "a", "r", "t", "2">>
ScenarioNotes == {Scenario3, Scenario3Lines, ScenarioMerge, ScenarioMergeLines}

\* tokens typed so far: a marker is one token of three characters
RECURSIVE CountLB(_)
CountLB(text) ==
    IF text = <<>> THEN 0
    ELSE (IF Head(text) = LB THEN 1 ELSE 0) + CountLB(Tail(text))
TokensTyped == Len(note) - 2 * CountLB(note)

\* the budget of the program, and the small budgets tried on typed notes
MAX_CHARS_PER_SLIDE == 150
Budgets == 1..MaxBudget
BudgetsAt(at) == IF at = "ready" THEN {MAX_CHARS_PER_SLIDE} ELSE Budgets

Idle == <<>>

Init ==
    /\ pc = "input"
    /\ note = <<>>
    /\ max_len = 0
    /\ segments = <<>>
    /\ chunks = <<>>
    /\ slides = <<>>
    /\ name_color_map = EmptyMap
    /\ auto_color_idx = 0
    /\ run = "idle"
    /\ first_seen = <<>>
    /\ last_call = <<>>
    /\ th = Idle
    /\ sp = Idle

\* the speaker notes of the uploaded slide, one token at a time
TypeToken(tok) ==
    /\ pc = "input"
    /\ TokensTyped < MaxNoteLen
    /\ note' = note \o tok
    /\ UNCHANGED <<pc, max_len, segments, chunks, slides, name_color_map,
                   auto_color_idx, run, first_seen, last_call, th, sp>>

\* the notes of the scenarios of the specification
LoadScenario(text) ==
    /\ pc = "input"
    /\ note = <<>>
    /\ note' = text
    /\ pc' = "ready"
    /\ UNCHANGED <<max_len, segments, chunks, slides, name_color_map,
                   auto_color_idx, run, first_seen, last_call, th, sp>>

\* index() keeps the cleaned note when it is not empty; create_script_slides
\* runs its loop body for it
create_script_slides(budget) ==
    /\ pc \in {"input", "ready"}
    /\ LET cleaned == clean_text(note)
           notes == IF cleaned # <<>> THEN <<cleaned>> ELSE <<>>
       IN  segments' = IF notes # <<>> THEN parse_notes_into_segments(notes[1])
                       ELSE <<>>
    /\ chunks' = pack_segments_into_chunks(segments', budget)
    /\ LET out == AddSlides([slides |-> <<>>, map |-> name_color_map,
                             idx |-> auto_color_idx], chunks', 1, Len(chunks'))
       IN  /\ slides' = out.slides
           /\ name_color_map' = out.map
           /\ auto_color_idx' = out.idx
    /\ max_len' = budget
    /\ pc' = "done"
    /\ UNCHANGED <<note, run, first_seen, last_call, th, sp>>

Next ==
    \/ \E tok \in Tokens : TypeToken(tok)
    \/ \E text \in ScenarioNotes : LoadScenario(text)
    \/ \E budget \in BudgetsAt(pc) : create_script_slides(budget)

Spec == Init /\ [][Next]_vars

(***************************************************************************)
(* Properties of the conversion.                                           *)
(***************************************************************************)
RECURSIVE Flatten(_)
Flatten(cs) == IF cs = <<>> THEN <<>> ELSE Head(cs) \o Flatten(Tail(cs))

RECURSIVE SumLen(_)
SumLen(chunk) == IF chunk = <<>> THEN 0 ELSE Len(Head(chunk)[2]) + SumLen(Tail(chunk))

RECURSIVE RemoveWS(_)
RemoveWS(text) ==
    IF text = <<>> THEN <<>>
    ELSE IF Head(text) \in Whitespace THEN RemoveWS(Tail(text))
         ELSE <<Head(text)>> \o RemoveWS(Tail(text))

RECURSIVE IsSubsequence(_, _)
IsSubsequence(a, b) ==
    IF a = <<>> THEN TRUE
    ELSE IF b = <<>> THEN FALSE
    ELSE IF Head(a) = Head(b) THEN IsSubsequence(Tail(a), Tail(b))
         ELSE IsSubsequence(a, Tail(b))

\* the fragments in output order, grouped into maximal runs of one speaker
RECURSIVE GroupBySpeaker(_, _)
GroupBySpeaker(groups, frags) ==
    IF frags = <<>> THEN groups
    ELSE LET f == Head(frags)
             n == Len(groups)
         IN  IF n > 0 /\ groups[n].name = f[1]
             THEN GroupBySpeaker([groups EXCEPT ![n].texts = Append(@, f[2])],
                                 Tail(frags))
             ELSE GroupBySpeaker(Append(groups, [name |-> f[1], texts |-> <<f[2]>>]),
                                 Tail(frags))

Groups == GroupBySpeaker(<<>>, Flatten(chunks))
Typed == pc = "done" /\ max_len \in Budgets

SpeakerNotSplit ==
    Typed =>
        /\ Len(Groups) = Len(segments)
        /\ \A i \in 1..Len(segments) :
              /\ Groups[i].name = segments[i][1]
              /\ Len(segments[i][2]) <= max_len => Groups[i].texts = <<segments[i][2]>>
              /\ Len(Groups[i].texts) > 1 => Len(segments[i][2]) > max_len
              /\ IsSubsequence(Join(Groups[i].texts), segments[i][2])

SpeakerNotSplitWitness ==
    /\ Typed
    /\ \E i, j \in 1..Len(segments) :
          /\ i # j
          /\ Len(Groups[i].texts) >= 2
          /\ Len(segments[j][2]) <= max_len
          /\ Groups[j].texts = <<segments[j][2]>>

\* C4 as stated: the two single-line scenario texts give three segments and
\* one merged segment.
ScenarioSegmentsAsStated ==
    pc = "done" =>
        /\ note = Scenario3 =>
              segments = << <<NameA, <<"h", "e", "l", "l", "o">>>>,
                            <<NameB, <<"w", "o", "r", "l", "d">>>>,
                            <<NameA, <<"a", "g", "a", "i", "n">>>> >>
        /\ note = ScenarioMerge =>
              segments = << <<NameA, <<"p", "a", "r", "t", "1", "p", "a", "r", "t", "2">>>> >>

\* C4 amended: with every marker at the start of a line the scenario texts
\* give the segments stated; on one line only the first marker is a marker
\* and the later ones stay in the text of the single segment.
ScenarioSegmentsByLine ==
    pc = "done" =>
        /\ note = Scenario3Lines =>
              segments = << <<NameA, <<"h", "e", "l", "l", "o">>>>,
                            <<NameB, <<"w", "o", "r", "l", "d">>>>,
                            <<NameA, <<"a", "g", "a", "i", "n">>>> >>
        /\ note = ScenarioMergeLines =>
              segments = << <<NameA, <<"p", "a", "r", "t", "1", "p", "a", "r", "t", "2">>>> >>
        /\ note = Scenario3 =>
              segments = << <<NameA, <<"h", "e", "l", "l", "o">> \o Marker(NameB)
                                     \o <<"w", "o", "r", "l", "d">> \o Marker(NameA)
                                     \o <<"a", "g", "a", "i", "n">>>> >>
        /\ note = ScenarioMerge =>
              segments = << <<NameA, <<"p", "a", "r", "t", "1">> \o Marker(NameA)
                                     \o <<"p", "a", "r", "t", "2">>>> >>

ScenarioWitness ==
    /\ pc = "done"
    /\ note = ScenarioMergeLines
    /\ Len(segments) = 1

\* C9: a note of one chunk gives one slide without indicator; a note of
\* total > 1 chunks gives total slides in chunk order, slide i carrying
\* i/total; a note without chunks gives no slide.
PageNumbering ==
    pc = "done" =>
        /\ Len(slides) = Len(chunks)
        /\ \A i \in 1..Len(slides) :
              /\ slides[i].page =
                    IF Len(chunks) = 1 THEN NoIndicator ELSE <<i, Len(chunks)>>
              /\ Len(slides[i].runs) = Len(chunks[i])
              /\ \A j \in 1..Len(chunks[i]) :
                    slides[i].runs[j][1] =
                        (IF chunks[i][j][1] # <<>> THEN Marker(chunks[i][j][1]) ELSE <<>>)
                        \o chunks[i][j][2]

PageNumberingWitness ==
    /\ pc = "done"
    /\ Len(chunks) >= 3
    /\ slides[3].page = <<3, Len(chunks)>>

(***************************************************************************)
(* Conversions one after another in one process: the calls that            *)
(* create_script_slides makes to get_color_for_name, run after run.        *)
(***************************************************************************)
UnknownChars == <<"C", "D", "E", "F", "G", "H", "I", "J">>
UnknownNames == {<<UnknownChars[i]>> : i \in 1..MaxUnknown}
CallNames == {<<>>} \cup FixedNames \cup UnknownNames

Range(f) == {f[i] : i \in DOMAIN f}

\* create_script_slides is entered: nothing resets the module globals
BeginRun ==
    /\ run = "idle"
    /\ run' = "start"
    /\ UNCHANGED <<pc, note, max_len, segments, chunks, slides, name_color_map,
                   auto_color_idx, first_seen, last_call, th, sp>>

\* f.color.rgb = get_color_for_name(name) for one run of text
ColorRun(name) ==
    /\ run \in {"start", "running"}
    /\ LET r == get_color_for_name(name_color_map, auto_color_idx, name)
       IN  /\ name_color_map' = r.map
           /\ auto_color_idx' = r.idx
           /\ last_call' = <<name, r.color>>
    /\ first_seen' = IF name # <<>> /\ name \notin FixedNames
                        /\ name \notin Range(first_seen)
                     THEN Append(first_seen, name)
                     ELSE first_seen
    /\ run' = "running"
    /\ UNCHANGED <<pc, note, max_len, segments, chunks, slides, th, sp>>

\* create_script_slides returns
EndRun ==
    /\ run \in {"start", "running"}
    /\ run' = "idle"
    /\ UNCHANGED <<pc, note, max_len, segments, chunks, slides, name_color_map,
                   auto_color_idx, first_seen, last_call, th, sp>>

ColorNext ==
    \/ BeginRun
    \/ \E name \in CallNames : ColorRun(name)
    \/ EndRun

ColorSpec == Init /\ [][ColorNext]_vars

\* rank of a name among the distinct non-fixed names in order of first call
Rank(name) == CHOOSE k \in 1..Len(first_seen) : first_seen[k] = name

\* C5: the colour of every call is the colour of the reference: white for no
\* name, the fixed colour for a fixed name, pool[(k - 1) mod 3] for the k-th
\* distinct other name; recorded colours and the cursor follow the ranks, so
\* a name keeps its colour and other calls leave the cursor alone.
ColourReference ==
    /\ auto_color_idx = Len(first_seen)
    /\ DOMAIN name_color_map = Range(first_seen)
    /\ \A n \in DOMAIN name_color_map :
          name_color_map[n] = AUTO_COLOR_POOL[((Rank(n) - 1) % 3) + 1]
    /\ last_call # <<>> =>
          LET name == last_call[1]
              color == last_call[2]
          IN  /\ name = <<>> => color = "FFFFFF"
              /\ name = Nakajo => color = "00FDFF"
              /\ name = Mimura => color = "FFFFFF"
              /\ name = Hoshino => color = "FFFF00"
              /\ name \in UnknownNames =>
                    color = AUTO_COLOR_POOL[((Rank(name) - 1) % 3) + 1]

\* the fourth distinct unknown speaker wraps round to the first pool colour
ColourReferenceWitness ==
    /\ Len(first_seen) = 4
    /\ auto_color_idx = 4
    /\ last_call = <<first_seen[4], AUTO_COLOR_POOL[1]>>

\* C6 as stated: when a conversion run starts, the colour map holds no
\* auto-assigned entry and the cursor is at the first pool colour.
FreshColoursEachRun ==
    run = "start" =>
        /\ name_color_map = EmptyMap
        /\ auto_color_idx % 3 = 0

(***************************************************************************)
(* Two conversions at once in one process.  Each thread runs               *)
(* get_color_for_name step by step on the shared module globals.           *)
(***************************************************************************)
Threads == {1, 2}
ConcNames == {<<UnknownChars[1]>>, <<UnknownChars[2]>>}
NothingGot == [n \in ConcNames |-> {}]

ConcInit ==
    /\ pc = "input"
    /\ note = <<>>
    /\ max_len = 0
    /\ segments = <<>>
    /\ chunks = <<>>
    /\ slides = <<>>
    /\ name_color_map = EmptyMap
    /\ auto_color_idx = 0
    /\ run = "idle"
    /\ first_seen = <<>>
    /\ last_call = <<>>
    /\ th = [t \in Threads |->
                [pc |-> "idle", name |-> <<>>, color |-> White, tmp |-> 0,
                 got |-> NothingGot]]
    /\ sp = Idle

ConcUnchanged ==
    UNCHANGED <<pc, note, max_len, segments, chunks, slides, run, first_seen,
                last_call, sp>>

\* the request thread enters create_script_slides
ThreadBegin(t) ==
    /\ th[t].pc = "idle"
    /\ th' = [th EXCEPT ![t].pc = "runs", ![t].got = NothingGot]
    /\ UNCHANGED <<name_color_map, auto_color_idx>>
    /\ ConcUnchanged

\* app.py:85-91: the tests on the name and the lookup in the map
ThreadLookup(t, name) ==
    /\ th[t].pc = "runs"
    /\ IF name \in DOMAIN name_color_map
       THEN th' = [th EXCEPT ![t].name = name,
                             ![t].color = name_color_map[name],
                             ![t].got[name] = @ \cup {name_color_map[name]}]
       ELSE th' = [th EXCEPT ![t].name = name, ![t].pc = "pick"]
    /\ UNCHANGED <<name_color_map, auto_color_idx>>
    /\ ConcUnchanged

\* app.py:93: the read of the cursor
ThreadPick(t) ==
    /\ th[t].pc = "pick"
    /\ th' = [th EXCEPT ![t].color = PoolColor(auto_color_idx), ![t].pc = "store"]
    /\ UNCHANGED <<name_color_map, auto_color_idx>>
    /\ ConcUnchanged

\* app.py:94: the write of the map entry
ThreadStore(t) ==
    /\ th[t].pc = "store"
    /\ name_color_map' = SetItem(name_color_map, th[t].name, th[t].color)
    /\ th' = [th EXCEPT ![t].pc = "load"]
    /\ UNCHANGED auto_color_idx
    /\ ConcUnchanged

\* app.py:95: the increment loads the cursor ...
ThreadLoad(t) ==
    /\ th[t].pc = "load"
    /\ th' = [th EXCEPT ![t].tmp = auto_color_idx, ![t].pc = "add"]
    /\ UNCHANGED <<name_color_map, auto_color_idx>>
    /\ ConcUnchanged

\* ... and stores it back; app.py:96 returns the colour
ThreadAdd(t) ==
    /\ th[t].pc = "add"
    /\ auto_color_idx' = th[t].tmp + 1
    /\ th' = [th EXCEPT ![t].pc = "runs",
                        ![t].got[th[t].name] = @ \cup {th[t].color}]
    /\ UNCHANGED name_color_map
    /\ ConcUnchanged

\* create_script_slides returns
ThreadEnd(t) ==
    /\ th[t].pc = "runs"
    /\ th' = [th EXCEPT ![t].pc = "idle", ![t].got = NothingGot]
    /\ UNCHANGED <<name_color_map, auto_color_idx>>
    /\ ConcUnchanged

ConcNext ==
    \E t \in Threads :
        \/ ThreadBegin(t)
        \/ \E name \in ConcNames : ThreadLookup(t, name)
        \/ ThreadPick(t)
        \/ ThreadStore(t)
        \/ ThreadLoad(t)
        \/ ThreadAdd(t)
        \/ ThreadEnd(t)

ConcSpec == ConcInit /\ [][ConcNext]_vars

\* C7 as stated: a colour returned for a speaker within a conversion stays
\* the colour recorded for that speaker, so all the text runs of the
\* speaker in that conversion have one colour.
StableColourPerConversion ==
    \A t \in Threads : \A n \in ConcNames :
        th[t].got[n] # {} =>
            /\ n \in DOMAIN name_color_map
            /\ th[t].got[n] = {name_color_map[n]}

(***************************************************************************)
(* pack_segments_into_chunks step by step on one segment, its budget       *)
(* positive or not: the call of _split_preserving_words, the iterations of *)
(* its loop, and the packing of the pieces.                                *)
(***************************************************************************)
TextChars == {"a", " ", ","}
\* segment texts as the segmenter leaves them: not empty, stripped
Texts ==
    {s \in UNION {[1..n -> TextChars] : n \in 1..MaxTextLen} : Strip(s) = s}
Limits == (-2)..MaxBudget
\* pieces after which a loop that does not end is cut short
MaxParts == MaxTextLen + 2

SplitInit ==
    /\ pc = "input"
    /\ note = <<>>
    /\ max_len = 0
    /\ segments = <<>>
    /\ chunks = <<>>
    /\ slides = <<>>
    /\ name_color_map = EmptyMap
    /\ auto_color_idx = 0
    /\ run = "idle"
    /\ first_seen = <<>>
    /\ last_call = <<>>
    /\ th = Idle
    /\ sp = [pc |-> "idle", s |-> <<>>, limit |-> 0, start |-> 0,
             parts |-> <<>>, chunks |-> <<>>]

SplitUnchanged ==
    UNCHANGED <<pc, note, max_len, segments, chunks, slides, name_color_map,
                auto_color_idx, run, first_seen, last_call, th>>

\* pack_segments_into_chunks([(name, s)], limit) reaches app.py:180
PackCall(s, limit) ==
    /\ sp.pc = "idle"
    /\ sp' = [sp EXCEPT !.pc = "split", !.s = s, !.limit = limit]
    /\ SplitUnchanged

\* app.py:145-149
SplitEnter ==
    /\ sp.pc = "split"
    /\ IF Len(sp.s) <= sp.limit
       THEN sp' = [sp EXCEPT !.parts = <<sp.s>>, !.pc = "pack"]
       ELSE sp' = [sp EXCEPT !.parts = <<>>, !.start = 0, !.pc = "loop"]
    /\ SplitUnchanged

\* one iteration of the while loop, app.py:150-159
SplitIter ==
    /\ sp.pc = "loop"
    /\ sp.start < Len(sp.s)
    /\ Len(sp.parts) < MaxParts
    /\ LET cut == SplitCut(sp.s, sp.limit, sp.start)
       IN  sp' = [sp EXCEPT !.parts = Append(@, PySlice(sp.s, sp.start, cut)),
                            !.start = cut]
    /\ SplitUnchanged

\* the loop test fails: return parts
SplitReturn ==
    /\ sp.pc = "loop"
    /\ ~(sp.start < Len(sp.s))
    /\ sp' = [sp EXCEPT !.pc = "pack"]
    /\ SplitUnchanged

\* app.py:181-195: the pieces are packed and the chunks returned
PackReturn ==
    /\ sp.pc = "pack"
    /\ sp' = [sp EXCEPT
                 !.chunks = Flush(PackPieces([chunks |-> <<>>, cur |-> <<>>,
                                              cur_len |-> 0],
                                             NameA, sp.parts, sp.limit)).chunks,
                 !.pc = "returned"]
    /\ SplitUnchanged

SplitStep == SplitEnter \/ SplitIter \/ SplitReturn \/ PackReturn

SplitNext ==
    \/ \E s \in Texts : \E limit \in Limits : PackCall(s, limit)
    \/ SplitEnter
    \/ SplitIter
    \/ SplitReturn
    \/ PackReturn

\* the interpreter keeps running the call it has started
SplitSpec == SplitInit /\ [][SplitNext]_vars /\ WF_vars(SplitStep)

\* C8 as stated: with a budget of zero or less the call is rejected before
\* anything is split or packed.
RejectsBadBudget ==
    (sp.pc # "idle" /\ sp.limit <= 0) =>
        /\ sp.pc \in {"split", "rejected"}
        /\ sp.parts = <<>>
        /\ sp.chunks = <<>>

====
